---------------------------- MODULE Spec2Model ----------------------------
(***************************************************************************)
(* Model of the PDF compression tool's object-graph operations             *)
(* (src/src/processors/streamOptimizer.js: deduplicateObjects,             *)
(* removeUnusedObjects, traverseAndMarkReferences) and of the per-document *)
(* pipeline (processPDF / applyCompression / compressPDF / main).          *)
(*                                                                         *)
(* The indirect-object table of a pdf-lib document is a JavaScript Map     *)
(* from PDFRef to PDFObject: `order` is its iteration (insertion) order    *)
(* and `objs` its contents.  A plain dictionary object (PDFDict) keeps its *)
(* entries in a field `dict` that is a JavaScript Map (imageCompressor.js  *)
(* line 43 and 83 use it that way); a stream object keeps a PDFDict in     *)
(* `dict` and its payload in `contents`.                                   *)
(***************************************************************************)
EXTENDS Integers, Sequences, FiniteSets, TLC

\* Number of indirect objects of a document whose objects are of any shape
\* (object numbers 1..MaxObj).
MaxObj == 3

\* Number of indirect objects of a document of streams (object numbers
\* 1..MaxWide: the catalog and MaxWide - 1 streams).
MaxWide == 5

\* The object numbers a table can have as keys.
Ids == 1..MaxWide
FullIds == 1..MaxObj

\* Marks an absent slot of the indirect-object table.
NoObj == [kind |-> "none", type |-> "None", items |-> <<>>, bytes |-> <<>>]

(***************************************************************************)
(* Values held inside objects: a reference, a name atom, an inline array,  *)
(* an inline dictionary.  `items` are an array's elements or a             *)
(* dictionary's entry values (entry i is stored under key /K).             *)
(***************************************************************************)
RefV(i) == [t |-> "ref", n |-> i, items |-> <<>>]
PrimV(p) == [t |-> "prim", n |-> p, items |-> <<>>]
ArrV(s) == [t |-> "arr", n |-> 0, items |-> s]
DictV(s) == [t |-> "dict", n |-> 0, items |-> s]

RefVals == {RefV(i) : i \in FullIds}
NameVals == {PrimV(1), PrimV(2)}
NestVals == {ArrV(<<r>>) : r \in RefVals} \cup {DictV(<<r>>) : r \in RefVals}
DeepVals == {ArrV(<<ArrV(<<r>>)>>) : r \in RefVals}

\* Stream payloads: two of equal length and different bytes.
Payloads == {<<1, 2>>, <<2, 1>>}

DictObj(ty, v) == [kind |-> "dict", type |-> ty, items |-> <<v>>, bytes |-> <<>>]
StreamObj(v, b) == [kind |-> "stream", type |-> "None", items |-> <<v>>, bytes |-> b]
ArrayObj(s) == [kind |-> "array", type |-> "None", items |-> s, bytes |-> <<>>]
PrimObj(p) == [kind |-> "prim", type |-> "None", items |-> <<PrimV(p)>>, bytes |-> <<>>]

DictVals == RefVals \cup {PrimV(1)} \cup NestVals
CatalogShapes == {DictObj("Catalog", v) : v \in DictVals}
OtherShapes ==
    {DictObj(ty, v) : ty \in {"None", "Pages"}, v \in DictVals}
    \cup {StreamObj(v, b) : v \in RefVals \cup NameVals, b \in Payloads}
    \cup {ArrayObj(<<v>>) : v \in RefVals \cup DeepVals}
    \cup {PrimObj(1)}
AllShapes == CatalogShapes \cup OtherShapes

\* The objects of a document of streams: every stream has the same payload
\* and one entry, a reference to a stream or a name.
WideRefs == {RefV(i) : i \in Ids \ {1}}
WideShapes == {StreamObj(v, <<1, 2>>) : v \in WideRefs \cup NameVals}


(***************************************************************************)
(* Text of an object, as toString() produces it, as a sequence of          *)
(* character codes.                                                        *)
(***************************************************************************)
RECURSIVE Digits(_)
Digits(n) == IF n < 10 THEN <<48 + n>> ELSE Digits(n \div 10) \o <<48 + (n % 10)>>

\* The name atoms /Aa and /BB (two names on which simpleHash collides).
PrimStr(p) == IF p = 1 THEN <<47, 65, 97>> ELSE <<47, 66, 66>>

\* The key of a dictionary's i-th entry: /K1, /K2, ...
KeyStr(i) == <<47, 75>> \o Digits(i)

RECURSIVE ToStr(_)
RECURSIVE ItemsStr(_, _, _)
\* Elements (arrays: "x ") or entries (dictionaries: "/Ki x\n") from index i on.
ItemsStr(s, i, asDict) ==
    IF i > Len(s) THEN <<>>
    ELSE (IF asDict THEN KeyStr(i) \o <<32>> \o ToStr(s[i]) \o <<10>>
                    ELSE ToStr(s[i]) \o <<32>>)
         \o ItemsStr(s, i + 1, asDict)

\* PDFRef "n 0 R", PDFName, PDFArray "[ a b ]", PDFDict "<<\n/K v\n>>".
ToStr(v) ==
    CASE v.t = "ref" -> Digits(v.n) \o <<32, 48, 32, 82>>
      [] v.t = "prim" -> PrimStr(v.n)
      [] v.t = "arr" -> <<91, 32>> \o ItemsStr(v.items, 1, FALSE) \o <<93>>
      [] v.t = "dict" -> <<60, 60, 10>> \o ItemsStr(v.items, 1, TRUE) \o <<62, 62>>

\* What toString() of a JavaScript Map gives: "[object Map]".
MapStr == <<91, 111, 98, 106, 101, 99, 116, 32, 77, 97, 112, 93>>

\* The string deduplicateObjects hashes and compares for one object.
\* An object with a `dict` field: dict.toString() ++ "||" ++ the payload's
\* LENGTH (a plain dictionary has no contents: the empty string).
ObjectContent(o) ==
    CASE o.kind = "dict" -> MapStr \o <<124, 124>>
      [] o.kind = "stream" ->
            ToStr(DictV(o.items)) \o <<124, 124>> \o Digits(Len(o.bytes))
      [] o.kind = "array" -> ToStr(ArrV(o.items))
      [] o.kind = "prim" -> ToStr(o.items[1])

(***************************************************************************)
(* simpleHash: hash = ((hash << 5) - hash) + char, kept to 32 bits.  The   *)
(* 32-bit value is held as two 16-bit halves <<hi, lo>>; the base-36 text  *)
(* the code returns is one-to-one with it.                                 *)
(***************************************************************************)
Half == 65536

HashStep(h, c) ==
    LET lo == 31 * h[2] + c
        hi == 31 * h[1] + (lo \div Half)
    IN  <<hi % Half, lo % Half>>

RECURSIVE HashFrom(_, _, _)
HashFrom(str, i, h) ==
    IF i > Len(str) THEN h ELSE HashFrom(str, i + 1, HashStep(h, str[i]))

simpleHash(str) == HashFrom(str, 1, <<0, 0>>)

(***************************************************************************)
(* State.                                                                  *)
(***************************************************************************)
VARIABLES
    objs,       \* context.indirectObjects: object number -> object (or NoObj)
    order,      \* iteration order of context.indirectObjects (its keys)
    trailer,    \* context.trailerInfo: Root and Info (0: no Info entry)
    pre,        \* the table as it was when the document was loaded
    dupRefs,    \* duplicateRefs of the last deduplicateObjects call (0: no key)
    dstats,     \* stats returned by deduplicateObjects
    ustats,     \* stats returned by removeUnusedObjects
    saved,      \* what pdfDoc.save() serialized (NoSave: nothing yet)
    pc,         \* position of the caller
    marked,     \* referencedObjects of the traversal
    stack,      \* call stack of the traversal: the values each frame has left
    todo,       \* roots the traversal has still to be started from
    expanded,   \* how often each object's body was walked
    level,      \* config.compressionLevel of the run
    failedAt,   \* the step of processPDF that threw ("none": no step has)
    outFile,    \* the output path: "absent", "old" (there before), "written"
    exit,       \* the process: "running", "0" (completed), "1" (process.exit(1))
    images,     \* the XObject entries of the page compressImages works on
    xObjects,   \* what each entry of the XObject dictionary refers to
    istats,     \* stats of compressImages
    imagesToReplace, \* the replacements the first pass of compressImages collected
    ipos,       \* the XObject entry the first pass of compressImages is at
    batchIn,    \* processBatch: for each file found its output path and what
                \* compressPDF does on it; config.overwrite
    disk,       \* the file system: path -> size of the file there (0: no file)
    results,    \* results of processBatch
    calls,      \* processBatch: for each file handled, what its call of
                \* compressPDF did ("none": compressPDF was not called)
    meta,       \* the metadata of the document stripMetadata works on
    mstats,     \* stats of stripMetadata
    vfile,      \* validatePDF: what the file at filePath is like
    vresult,    \* validatePDF: the results it returned
    args,       \* main: the command line, the answers to the prompts, and
                \* what the input file and the libraries are like
    run,        \* main: what the run has called so far
    streams,    \* optimizeStreams: the stream objects of the table
    sstats,     \* stats of optimizeStreams
    spos,       \* the object the loop of optimizeStreams is at
    retry       \* retryWithBackoff: its arguments, its locals and what it did

vars == <<objs, order, trailer, pre, dupRefs, dstats, ustats, saved, pc,
          marked, stack, todo, expanded, level, failedAt, outFile, exit,
          images, xObjects, istats, imagesToReplace, ipos,
          batchIn, disk, results, calls,
          meta, mstats, vfile, vresult, args, run,
          streams, sstats, spos, retry>>

graphVars == <<objs, order, trailer, pre>>
passVars == <<dupRefs, dstats, ustats, saved>>
travVars == <<marked, stack, todo, expanded>>
pipeVars == <<level, failedAt, outFile, exit>>
imgVars == <<images, xObjects, istats, imagesToReplace, ipos>>
batchVars == <<batchIn, disk, results, calls>>
metaVars == <<meta, mstats>>
valVars == <<vfile, vresult>>
cliVars == <<args, run>>
streamVars == <<streams, sstats, spos>>
retryVars == <<retry>>
auxVars == <<metaVars, valVars, cliVars, streamVars, retryVars>>
coreVars == <<graphVars, passVars, travVars, pipeVars, imgVars, batchVars>>

NoSave == [objs |-> <<>>, order |-> <<>>]
NoDup == [i \in Ids |-> 0]
ZeroDStats == [objectsChecked |-> 0, duplicatesFound |-> 0, spaceSaved |-> 0]
\* (the byte estimate stats.spaceSaved of removeUnusedObjects is left out)
ZeroUStats == [objectsChecked |-> 0, unusedObjectsRemoved |-> 0]

(***************************************************************************)
(* deduplicateObjects, first pass: hash every object in table order.       *)
(* acc.hashes is objectHashes (hash -> {ref, size, content}), acc.dup is   *)
(* duplicateRefs.                                                          *)
(***************************************************************************)
\* Line 435: a hash hit counts as a duplicate when the strings are equal.
SameContent(original, objectContent) == original.content = objectContent

\* A first pass that moves the objectHashes entry on to the object seen last.
HashOneLatest(tbl, ref, acc) ==
    LET objectContent == ObjectContent(tbl[ref])
        hash == simpleHash(objectContent)
        hit == {e \in acc.hashes : e.hash = hash}
        entry == [hash |-> hash, ref |-> ref, size |-> Len(objectContent),
                  content |-> objectContent]
        checked == [acc EXCEPT !.objectsChecked = @ + 1]
    IN  IF hit # {}
        THEN LET original == CHOOSE e \in hit : TRUE
             IN  IF SameContent(original, objectContent)
                 THEN [checked EXCEPT !.dup[ref] = original.ref,
                                      !.duplicatesFound = @ + 1,
                                      !.spaceSaved = @ + original.size,
                                      !.hashes = (@ \ hit) \cup {entry}]
                 ELSE checked
        ELSE [checked EXCEPT !.hashes = @ \cup {entry}]

HashOne(tbl, ref, acc) ==
    LET objectContent == ObjectContent(tbl[ref])
        hash == simpleHash(objectContent)
        hit == {e \in acc.hashes : e.hash = hash}
        checked == [acc EXCEPT !.objectsChecked = @ + 1]
    IN  IF hit # {}
        THEN LET original == CHOOSE e \in hit : TRUE
             IN  IF SameContent(original, objectContent)
                 THEN [checked EXCEPT !.dup[ref] = original.ref,
                                      !.duplicatesFound = @ + 1,
                                      !.spaceSaved = @ + original.size]
                 ELSE checked
        ELSE [checked EXCEPT !.hashes = @ \cup
                 {[hash |-> hash, ref |-> ref, size |-> Len(objectContent),
                   content |-> objectContent]}]

RECURSIVE HashAll(_, _, _, _)
HashAll(tbl, ord, i, acc) ==
    IF i > Len(ord) THEN acc
    ELSE HashAll(tbl, ord, i + 1, HashOne(tbl, ord[i], acc))

FirstPass(tbl, ord) ==
    HashAll(tbl, ord, 1,
            [hashes |-> {}, dup |-> NoDup, objectsChecked |-> 0,
             duplicatesFound |-> 0, spaceSaved |-> 0])

(***************************************************************************)
(* deduplicateObjects, second pass: point references at the canonical      *)
(* object.  Only PDFRef and PDFArray values are looked at.                 *)
(***************************************************************************)
ReplaceRef(v, dup) == IF dup[v.n] # 0 THEN RefV(dup[v.n]) ELSE v

RECURSIVE updateArrayReferences(_, _)
updateArrayReferences(items, dup) ==
    [i \in 1..Len(items) |->
        CASE items[i].t = "ref" -> ReplaceRef(items[i], dup)
          [] items[i].t = "arr" ->
                ArrV(updateArrayReferences(items[i].items, dup))
          [] OTHER -> items[i]]

UpdateEntries(items, dup) ==
    [i \in 1..Len(items) |->
        CASE items[i].t = "ref" -> ReplaceRef(items[i], dup)
          [] items[i].t = "arr" ->
                ArrV(updateArrayReferences(items[i].items, dup))
          [] OTHER -> items[i]]

UpdateObject(o, dup) ==
    CASE o.kind \in {"dict", "stream"} ->
            [o EXCEPT !.items = UpdateEntries(o.items, dup)]
      [] o.kind = "array" ->
            [o EXCEPT !.items = updateArrayReferences(o.items, dup)]
      [] OTHER -> o

\* The keys of a Map that are left after deleting those in `gone`.
RECURSIVE Remaining(_, _)
Remaining(ord, gone) ==
    IF ord = <<>> THEN <<>>
    ELSE (IF Head(ord) \in gone THEN <<>> ELSE <<Head(ord)>>)
         \o Remaining(Tail(ord), gone)

DupKeys(dup) == {i \in Ids : dup[i] # 0}

\* The table after the second pass and the deletion of the duplicates.
DedupTable(tbl, dup) ==
    [i \in Ids |->
        IF dup[i] # 0 \/ tbl[i] = NoObj THEN NoObj ELSE UpdateObject(tbl[i], dup)]

(***************************************************************************)
(* removeUnusedObjects.  The traversal from the roots is commented out;    *)
(* every key of the table is put into referencedObjects.                   *)
(***************************************************************************)
RECURSIVE KeysOf(_)
KeysOf(ord) == IF ord = <<>> THEN {} ELSE {Head(ord)} \cup KeysOf(Tail(ord))

\* A removeUnusedObjects that marks nothing before it looks for unused keys.
NothingReferenced(ord) == {}

ReferencedObjects(ord) == KeysOf(ord)

UnusedRefs(ord, referenced) == KeysOf(ord) \ referenced

(***************************************************************************)
(* traverseAndMarkReferences / traverseArrayReferences.  A frame of        *)
(* `stack` holds the values a running loop has still to look at.           *)
(***************************************************************************)
\* The values the loops of traverseAndMarkReferences walk for one object:
\* object.dict.entries() (streams and dictionaries), the array's items,
\* and object.entries() once more for a plain dictionary.
BodyValues(o) ==
    CASE o.kind = "dict" -> o.items \o o.items
      [] o.kind = "stream" -> o.items
      [] o.kind = "array" -> o.items
      [] OTHER -> <<>>

\* The roots the traversal is started from: Root, then Info if present.
RootRefs(tr) == IF tr.Info = 0 THEN <<tr.Root>> ELSE <<tr.Root, tr.Info>>

\* A call traverseAndMarkReferences(ref) made with stack `st`.
CallTraverse(ref, st) ==
    IF ref \in marked
    THEN /\ marked' = marked
         /\ expanded' = expanded
         /\ stack' = st
    ELSE /\ marked' = marked \cup {ref}
         /\ IF ref \in Ids /\ objs[ref] # NoObj
            THEN /\ expanded' = [expanded EXCEPT ![ref] = @ + 1]
                 /\ stack' = <<BodyValues(objs[ref])>> \o st
            ELSE /\ expanded' = expanded
                 /\ stack' = st

\* The stack with the head of its top frame taken off.
Advance(st) == <<Tail(Head(st))>> \o Tail(st)

(***************************************************************************)
(* Documents: a catalog (object 1, the trailer's Root) and MaxObj - 1      *)
(* further objects of any shape, where an Info entry may name a plain      *)
(* dictionary; or a catalog and MaxWide - 1 streams.  The table lists its  *)
(* keys in ascending or in descending order.                               *)
(***************************************************************************)
Ascending(n) == [i \in 1..n |-> i]
Descending(n) == [i \in 1..n |-> n + 1 - i]

\* The table holding the objects f[1], ..., f[n] under the keys 1..n.
TableOf(f, n) == [i \in Ids |-> IF i <= n THEN f[i] ELSE NoObj]

FullDocument ==
    /\ \E f \in [FullIds -> AllShapes] :
          /\ f[1] \in CatalogShapes
          /\ \A i \in FullIds \ {1} : f[i] \in OtherShapes
          /\ objs = TableOf(f, MaxObj)
    /\ order \in {Ascending(MaxObj), Descending(MaxObj)}
    /\ trailer \in {[Root |-> 1, Info |-> i] : i \in {0} \cup
                      {j \in FullIds \ {1} :
                          objs[j].kind = "dict" /\ objs[j].type = "None"}}

WideDocument ==
    /\ \E f \in [Ids -> WideShapes \cup {DictObj("Catalog", RefV(2))}] :
          /\ f[1] = DictObj("Catalog", RefV(2))
          /\ \A i \in Ids \ {1} : f[i] \in WideShapes
          /\ objs = TableOf(f, MaxWide)
    /\ order \in {Ascending(MaxWide), Descending(MaxWide)}
    /\ trailer = [Root |-> 1, Info |-> 0]

InitGraph ==
    /\ FullDocument \/ WideDocument
    /\ pre = objs

\* A document of a catalog and MaxObj - 1 streams with payloads from P, the
\* table in ascending order.
StreamDocument(P) ==
    /\ \E b \in [FullIds -> P] :
          objs = TableOf([i \in FullIds |->
                            IF i = 1 THEN DictObj("Catalog", RefV(2))
                            ELSE StreamObj(PrimV(1), b[i])], MaxObj)
    /\ order = Ascending(MaxObj)
    /\ trailer = [Root |-> 1, Info |-> 0]
    /\ pre = objs

InitPass ==
    /\ dupRefs = NoDup
    /\ dstats = ZeroDStats
    /\ ustats = ZeroUStats
    /\ saved = NoSave

InitTrav ==
    /\ marked = {}
    /\ stack = <<>>
    /\ todo = <<>>
    /\ expanded = [i \in Ids |-> 0]

\* No page is being worked on by compressImages.
ZeroIStats == [imagesProcessed |-> 0, originalImagesSize |-> 0,
               compressedImagesSize |-> 0]

InitImg ==
    /\ images = <<>>
    /\ xObjects = <<>>
    /\ istats = ZeroIStats
    /\ imagesToReplace = <<>>
    /\ ipos = 1

\* No batch is being processed.
ZeroResults == [total |-> 0, successful |-> 0, failed |-> 0, files |-> <<>>,
                totalOriginalSize |-> 0, totalCompressedSize |-> 0]

InitBatch ==
    /\ batchIn = [files |-> <<>>, outcomes |-> <<>>, outputDir |-> "none",
                  recursive |-> FALSE, overwrite |-> FALSE]
    /\ disk = <<>>
    /\ results = ZeroResults
    /\ calls = <<>>

\* No metadata is being stripped.
ZeroMStats == [metadataRemoved |-> 0, fieldsCleared |-> 0]

InitMeta ==
    /\ meta = <<>>
    /\ mstats = ZeroMStats

\* No file is being validated.
InitVal ==
    /\ vfile = <<>>
    /\ vresult = <<>>

\* main has called nothing.
NoRun == [called |-> FALSE, scanned |-> FALSE, processed |-> FALSE,
          skipped |-> FALSE, validation |-> "none"]

InitCli ==
    /\ args = <<>>
    /\ run = NoRun

\* No stream is being optimized.
ZeroSStats == [streamsProcessed |-> 0, originalStreamSize |-> 0,
               compressedStreamSize |-> 0]

InitStreams ==
    /\ streams = <<>>
    /\ sstats = ZeroSStats
    /\ spos = 1

\* No call of retryWithBackoff is under way.
NoRetry == [maxRetries |-> 0, initialDelay |-> 0, i |-> 0, lastError |-> "undefined",
            attempts |-> <<>>, waits |-> <<>>, returned |-> "none", thrown |-> "none"]

InitRetry == retry = NoRetry

InitAux == InitMeta /\ InitVal /\ InitCli /\ InitStreams /\ InitRetry

\* No run of the command-line tool is under way.
InitPipe ==
    /\ level = "extreme"
    /\ failedAt = "none"
    /\ outFile = "absent"
    /\ exit = "running"
    /\ InitImg
    /\ InitBatch
    /\ InitAux

(***************************************************************************)
(* The compaction pass: deduplicateObjects, removeUnusedObjects, save.     *)
(***************************************************************************)
DeduplicateObjects ==
    /\ pc = "loaded"
    /\ LET r == FirstPass(objs, order)
       IN  /\ dupRefs' = r.dup
           /\ dstats' = [objectsChecked |-> r.objectsChecked,
                         duplicatesFound |-> r.duplicatesFound,
                         spaceSaved |-> r.spaceSaved]
           /\ objs' = IF DupKeys(r.dup) # {} THEN DedupTable(objs, r.dup) ELSE objs
           /\ order' = Remaining(order, DupKeys(r.dup))
    /\ pc' = "deduped"
    /\ UNCHANGED <<auxVars, imgVars, batchVars, trailer, pre, ustats, saved, travVars, pipeVars>>

RemoveUnusedObjects ==
    /\ pc \in {"loaded", "deduped"}
    /\ LET unusedRefs == UnusedRefs(order, ReferencedObjects(order))
       IN  /\ objs' = [i \in Ids |-> IF i \in unusedRefs THEN NoObj ELSE objs[i]]
           /\ order' = Remaining(order, unusedRefs)
           /\ ustats' = [objectsChecked |-> Len(order),
                         unusedObjectsRemoved |-> Cardinality(unusedRefs)]
    /\ pc' = "collected"
    /\ UNCHANGED <<auxVars, imgVars, batchVars, trailer, pre, dupRefs, dstats, saved, travVars, pipeVars>>

\* pdfDoc.save() serializes the table as it stands.
Save ==
    /\ pc = "collected"
    /\ saved' = [objs |-> objs, order |-> order]
    /\ pc' = "saved"
    /\ UNCHANGED <<auxVars, imgVars, batchVars, graphVars, dupRefs, dstats, ustats, travVars, pipeVars>>

Init ==
    /\ InitGraph
    /\ InitPass
    /\ InitTrav
    /\ InitPipe
    /\ pc = "loaded"

Next == DeduplicateObjects \/ RemoveUnusedObjects \/ Save

Spec == Init /\ [][Next]_vars

(***************************************************************************)
(* The reachability traversal, started from the roots on a loaded          *)
(* document.                                                               *)
(***************************************************************************)
StartFromRoot ==
    /\ pc = "marking"
    /\ stack = <<>>
    /\ todo # <<>>
    /\ todo' = Tail(todo)
    /\ CallTraverse(Head(todo), <<>>)
    /\ UNCHANGED <<auxVars, imgVars, batchVars, graphVars, passVars, pipeVars, pc>>

VisitRef ==
    /\ pc = "marking"
    /\ stack # <<>> /\ Head(stack) # <<>>
    /\ Head(Head(stack)).t = "ref"
    /\ CallTraverse(Head(Head(stack)).n, Advance(stack))
    /\ UNCHANGED <<auxVars, imgVars, batchVars, graphVars, passVars, pipeVars, pc, todo>>

VisitArray ==
    /\ pc = "marking"
    /\ stack # <<>> /\ Head(stack) # <<>>
    /\ Head(Head(stack)).t = "arr"
    /\ stack' = <<Head(Head(stack)).items>> \o Advance(stack)
    /\ UNCHANGED <<auxVars, imgVars, batchVars, graphVars, passVars, pipeVars, pc, todo, marked, expanded>>

SkipValue ==
    /\ pc = "marking"
    /\ stack # <<>> /\ Head(stack) # <<>>
    /\ Head(Head(stack)).t \notin {"ref", "arr"}
    /\ stack' = Advance(stack)
    /\ UNCHANGED <<auxVars, imgVars, batchVars, graphVars, passVars, pipeVars, pc, todo, marked, expanded>>

Return ==
    /\ pc = "marking"
    /\ stack # <<>> /\ Head(stack) = <<>>
    /\ stack' = Tail(stack)
    /\ UNCHANGED <<auxVars, imgVars, batchVars, graphVars, passVars, pipeVars, pc, todo, marked, expanded>>

Finish ==
    /\ pc = "marking"
    /\ stack = <<>> /\ todo = <<>>
    /\ pc' = "marked"
    /\ UNCHANGED <<auxVars, imgVars, batchVars, graphVars, passVars, travVars, pipeVars>>

InitTraverse ==
    /\ InitGraph
    /\ InitPass
    /\ marked = {}
    /\ stack = <<>>
    /\ todo = RootRefs(trailer)
    /\ expanded = [i \in Ids |-> 0]
    /\ InitPipe
    /\ pc = "marking"

NextTraverse ==
    StartFromRoot \/ VisitRef \/ VisitArray \/ SkipValue \/ Return \/ Finish

SpecTraverse == InitTraverse /\ [][NextTraverse]_vars /\ WF_vars(NextTraverse)

(***************************************************************************)
(* The same traversal on a table in which a root of the trailer does not   *)
(* resolve: the catalog or the Info dictionary is not in the table (as     *)
(* deduplicateObjects leaves it after merging that object away).           *)
(***************************************************************************)
InitUnresolved ==
    /\ \E f \in [FullIds -> AllShapes \cup {NoObj}] :
          /\ f[1] \in CatalogShapes \cup {NoObj}
          /\ \A i \in FullIds \ {1} : f[i] \in OtherShapes \cup {NoObj}
          /\ objs = TableOf(f, MaxObj)
    /\ order = Remaining(Ascending(MaxObj), {i \in Ids : objs[i] = NoObj})
    /\ trailer \in {[Root |-> 1, Info |-> i] : i \in {0} \cup (FullIds \ {1})}
    /\ \E k \in 1..Len(RootRefs(trailer)) : objs[RootRefs(trailer)[k]] = NoObj
    /\ pre = objs
    /\ InitPass
    /\ marked = {}
    /\ stack = <<>>
    /\ todo = RootRefs(trailer)
    /\ expanded = [i \in Ids |-> 0]
    /\ InitPipe
    /\ pc = "marking"

SpecUnresolved == InitUnresolved /\ [][NextTraverse]_vars /\ WF_vars(NextTraverse)

(***************************************************************************)
(* One run of the tool on one file: main -> runSingleFileMode ->            *)
(* compressPDF -> processPDF -> applyCompression.  A step that can throw   *)
(* does so or not (ok); a thrown error travels through the catch blocks.   *)
(***************************************************************************)
Levels == {"extreme", "medium", "less"}

\* COMPRESSION_LEVELS: the settings the stages read.
Settings(l) ==
    CASE l = "extreme" ->
            [removeMetadata |-> "true", fontSubsetting |-> TRUE,
             objectCompression |-> "maximum", imageDPI |-> 72]
      [] l = "medium" ->
            [removeMetadata |-> "partial", fontSubsetting |-> TRUE,
             objectCompression |-> "moderate", imageDPI |-> 150]
      [] l = "less" ->
            [removeMetadata |-> "false", fontSubsetting |-> FALSE,
             objectCompression |-> "minimal", imageDPI |-> 300]

Stages == {"metadata", "images", "streams", "fonts"}

\* A stage of applyCompression that ends by returning its stats (next) or by
\* throwing into applyCompression's catch block.
RunStage(stage, canThrow, next) ==
    /\ pc = stage
    /\ \E ok \in (IF canThrow THEN BOOLEAN ELSE {TRUE}) :
          IF ok
          THEN pc' = next /\ failedAt' = failedAt
          ELSE pc' = "catchApply" /\ failedAt' = stage
    /\ UNCHANGED <<auxVars, imgVars, batchVars, graphVars, passVars, travVars, level, outFile, exit>>

\* processPDF: readFileSync, PDFDocument.load, getPageCount.
LoadDocument ==
    /\ pc = "start"
    /\ \E ok \in BOOLEAN :
          IF ok
          THEN pc' = "metadata" /\ failedAt' = failedAt
          ELSE pc' = "catchProcess" /\ failedAt' = "load"
    /\ UNCHANGED <<auxVars, imgVars, batchVars, graphVars, passVars, travVars, level, outFile, exit>>

\* stripMetadata returns at once when removeMetadata is false.
StripMetadata ==
    RunStage("metadata", Settings(level).removeMetadata # "false", "images")

CompressImages == RunStage("images", TRUE, "streams")

OptimizeStreams == RunStage("streams", TRUE, "fonts")

\* subsetFonts returns at once when fontSubsetting is off.
SubsetFonts == RunStage("fonts", Settings(level).fontSubsetting, "advanced")

\* Line 80: false && settings.objectCompression === 'maximum'.
AdvancedEnabled(settings) == settings.objectCompression = "maximum"

AdvancedGuard(settings) == FALSE /\ settings.objectCompression = "maximum"

\* Step 5 of applyCompression: deduplicateObjects and removeUnusedObjects
\* under the guard of line 80; applyCompression returns its stats.
AdvancedOptimizations ==
    /\ pc = "advanced"
    /\ IF AdvancedGuard(Settings(level))
       THEN LET r == FirstPass(objs, order)
                deduped == IF DupKeys(r.dup) # {} THEN DedupTable(objs, r.dup) ELSE objs
                left == Remaining(order, DupKeys(r.dup))
                unusedRefs == UnusedRefs(left, ReferencedObjects(left))
            IN  /\ dupRefs' = r.dup
                /\ dstats' = [objectsChecked |-> r.objectsChecked,
                              duplicatesFound |-> r.duplicatesFound,
                              spaceSaved |-> r.spaceSaved]
                /\ objs' = [i \in Ids |-> IF i \in unusedRefs THEN NoObj ELSE deduped[i]]
                /\ order' = Remaining(left, unusedRefs)
                /\ ustats' = [objectsChecked |-> Len(left),
                              unusedObjectsRemoved |-> Cardinality(unusedRefs)]
       ELSE UNCHANGED <<objs, order, dupRefs, dstats, ustats>>
    /\ pc' = "save"
    /\ UNCHANGED <<auxVars, imgVars, batchVars, trailer, pre, saved, travVars, pipeVars>>

\* processPDF: pdfDoc.save() and fs.writeFileSync(outputPath, pdfBytes).
SaveDocument ==
    /\ pc = "save"
    /\ \E ok \in BOOLEAN :
          IF ok
          THEN /\ saved' = [objs |-> objs, order |-> order]
               /\ outFile' = "written"
               /\ pc' = "returned"
               /\ failedAt' = failedAt
          ELSE /\ saved' = saved
               /\ outFile' = outFile
               /\ pc' = "catchProcess"
               /\ failedAt' = "save"
    /\ UNCHANGED <<auxVars, imgVars, batchVars, graphVars, dupRefs, dstats, ustats, travVars, level, exit>>

\* applyCompression: catch, throw 'Compression application failed'.
CatchApply ==
    /\ pc = "catchApply"
    /\ pc' = "catchProcess"
    /\ UNCHANGED <<auxVars, imgVars, batchVars, graphVars, passVars, travVars, pipeVars>>

\* processPDF: catch, throw 'PDF processing failed'.
CatchProcess ==
    /\ pc = "catchProcess"
    /\ pc' = "catchCompress"
    /\ UNCHANGED <<auxVars, imgVars, batchVars, graphVars, passVars, travVars, pipeVars>>

\* compressPDF: catch, spinner.fail, throw error.
CatchCompress ==
    /\ pc = "catchCompress"
    /\ pc' = "catchMain"
    /\ UNCHANGED <<auxVars, imgVars, batchVars, graphVars, passVars, travVars, pipeVars>>

\* main: catch, logger.error, process.exit(1).
CatchMain ==
    /\ pc = "catchMain"
    /\ exit' = "1"
    /\ pc' = "exited"
    /\ UNCHANGED <<auxVars, imgVars, batchVars, graphVars, passVars, travVars, level, failedAt, outFile>>

\* compressPDF returns its result; main logs the success.
MainSuccess ==
    /\ pc = "returned"
    /\ exit' = "0"
    /\ pc' = "exited"
    /\ UNCHANGED <<auxVars, imgVars, batchVars, graphVars, passVars, travVars, level, failedAt, outFile>>

InitPipeline ==
    /\ StreamDocument(Payloads)
    /\ InitPass
    /\ InitTrav
    /\ level \in Levels
    /\ failedAt = "none"
    /\ outFile \in {"absent", "old"}
    /\ exit = "running"
    /\ InitImg
    /\ InitBatch
    /\ InitAux
    /\ pc = "start"

NextPipeline ==
    \/ LoadDocument \/ StripMetadata \/ CompressImages \/ OptimizeStreams
    \/ SubsetFonts \/ AdvancedOptimizations \/ SaveDocument
    \/ CatchApply \/ CatchProcess
    \/ CatchCompress \/ CatchMain \/ MainSuccess

SpecPipeline == InitPipeline /\ [][NextPipeline]_vars /\ WF_vars(NextPipeline)

(***************************************************************************)
(* compressImages on one page.  An entry of the page's XObject dictionary  *)
(* is a form or an image; an image has /Width and /Height (0: missing),    *)
(* a /Length, and what the library calls make of it: extractImageData     *)
(* gives data or null, and compressing and embedding give a candidate of   *)
(* `cand` bytes or throw (cand = 0).                                       *)
(***************************************************************************)
MaxImages == 2

\* Candidate sizes, in percent of the original size.
CandPercents == {90, 95, 97, 100, 105}

\* The candidate sizes for an image of originalSize o.
CandSizes(o) == {(o * q) \div 100 : q \in CandPercents}

Form == [subtype |-> "Form", width |-> 0, height |-> 0, originalSize |-> 0,
         extract |-> "null", cand |-> 0]

ImageEntries ==
    {Form}
    \cup {[subtype |-> "Image", width |-> 0, height |-> 0, originalSize |-> o,
           extract |-> "null", cand |-> 0] : o \in {20000}}
    \cup {[subtype |-> "Image", width |-> w, height |-> w, originalSize |-> o,
           extract |-> "null", cand |-> 0] : w \in {1, 100}, o \in {9000, 20000}}
    \cup UNION {{[subtype |-> "Image", width |-> w, height |-> w,
                  originalSize |-> o, extract |-> "data", cand |-> c] :
                      w \in {1, 100}, c \in {0} \cup CandSizes(o)} :
                 o \in {9000, 20000}}

\* Math.round(width * Math.min(1, targetDPI / 300)).
TargetSize(width, targetDPI) ==
    IF targetDPI >= 300 THEN width
    ELSE (2 * width * targetDPI + 300) \div 600

\* Line 126: the image is already small.
AlreadySmall(e, settings) ==
    /\ e.width <= TargetSize(e.width, settings.imageDPI)
    /\ e.height <= TargetSize(e.height, settings.imageDPI)
    /\ e.originalSize < 10000

\* compressXObjectImage comes to the point where it holds an embedded
\* candidate for the entry.
HasCandidate(e, settings) ==
    /\ e.subtype = "Image"
    /\ e.width # 0 /\ e.height # 0
    /\ ~AlreadySmall(e, settings)
    /\ e.extract = "data"
    /\ e.cand # 0

\* Whether compressXObjectImage returns a replacement for the entry.
UseCandidate(e, settings) == HasCandidate(e, settings)

\* What compressXObjectImage adds to stats.originalImagesSize.
OriginalAdded(e) == IF e.width # 0 /\ e.height # 0 THEN e.originalSize ELSE 0

\* What compressXObjectImage adds to stats.compressedImagesSize.
CompressedAdded(e, settings) ==
    CASE e.width = 0 \/ e.height = 0 -> 0
      [] AlreadySmall(e, settings) -> e.originalSize
      [] e.extract = "null" -> e.originalSize
      [] e.cand = 0 -> 0
      [] OTHER -> e.cand

\* First pass, an entry that is not an image: continue.
SkipXObject ==
    /\ pc = "imagesFirst"
    /\ ipos <= Len(images)
    /\ images[ipos].subtype # "Image"
    /\ ipos' = ipos + 1
    /\ UNCHANGED <<auxVars, graphVars, passVars, travVars, pipeVars, batchVars, pc,
                   images, xObjects, istats, imagesToReplace>>

\* First pass, an image: compressXObjectImage and what is done with its
\* result.
CompressXObjectImage ==
    /\ pc = "imagesFirst"
    /\ ipos <= Len(images)
    /\ images[ipos].subtype = "Image"
    /\ LET e == images[ipos]
           settings == Settings(level)
       IN  /\ istats' = [imagesProcessed |-> istats.imagesProcessed + 1,
                         originalImagesSize |->
                             istats.originalImagesSize + OriginalAdded(e),
                         compressedImagesSize |->
                             istats.compressedImagesSize + CompressedAdded(e, settings)]
           /\ imagesToReplace' =
                 IF UseCandidate(e, settings)
                 THEN Append(imagesToReplace, ipos) ELSE imagesToReplace
    /\ ipos' = ipos + 1
    /\ UNCHANGED <<auxVars, graphVars, passVars, travVars, pipeVars, batchVars, pc,
                   images, xObjects>>

\* Second pass: every collected replacement is set in the XObject
\* dictionary; compressImages returns its stats.
ReplaceImages ==
    /\ pc = "imagesFirst"
    /\ ipos > Len(images)
    /\ xObjects' = [k \in 1..Len(xObjects) |->
                       IF \E j \in 1..Len(imagesToReplace) : imagesToReplace[j] = k
                       THEN "embedded" ELSE xObjects[k]]
    /\ pc' = "imagesDone"
    /\ UNCHANGED <<auxVars, graphVars, passVars, travVars, pipeVars, batchVars,
                   images, istats, imagesToReplace, ipos>>

InitImages ==
    /\ StreamDocument({<<1, 2>>})
    /\ InitPass
    /\ InitTrav
    /\ level \in Levels
    /\ failedAt = "none"
    /\ outFile = "absent"
    /\ exit = "running"
    /\ images \in UNION {[1..n -> ImageEntries] : n \in 1..MaxImages}
    /\ xObjects = [k \in 1..Len(images) |-> "original"]
    /\ istats = ZeroIStats
    /\ imagesToReplace = <<>>
    /\ ipos = 1
    /\ InitBatch
    /\ InitAux
    /\ pc = "imagesFirst"

NextImages == SkipXObject \/ CompressXObjectImage \/ ReplaceImages

SpecImages == InitImages /\ [][NextImages]_vars

(***************************************************************************)
(* processBatch.  A path is a directory, a stem and the number of times    *)
(* the suffix _compressed follows the stem (the extension is .pdf).        *)
(* batchIn.files is what findPDFFiles returned, batchIn.outcomes what      *)
(* compressPDF does on each file.  A file written by compressPDF has size  *)
(* 2, an input size 3, another file that is there from the start size 1.   *)
(***************************************************************************)
MaxFiles == 2

Dirs == {"docs", "docs/sub", "out"}

Paths == [dir : Dirs, stem : {"a"}, suffixes : 0..2]

\* The PDF files under the input directory docs: findPDFFiles searches
\* docs/*.pdf, with recursive docs/**/*.pdf.
Found(recursive) ==
    {q \in Paths : /\ q.suffixes <= 1
                   /\ q.dir \in (IF recursive THEN {"docs", "docs/sub"} ELSE {"docs"})}

\* generateOutputFilename(inputPath).
generateOutputFilename(inputPath) == [inputPath EXCEPT !.suffixes = @ + 1]

\* processSingleFile, lines 131-137: the output file path.
OutputFile(inputFile, outputDir) ==
    IF outputDir # "none" THEN [inputFile EXCEPT !.dir = outputDir]
    ELSE generateOutputFilename(inputFile)

\* The output path of the i-th file.
OutputOf(i) == OutputFile(batchIn.files[i], batchIn.outputDir)

\* What compressPDF does on a file: it writes the output and returns, it
\* returns without writing (the pre-scan found the file optimized), it
\* throws before writing, or it throws after processPDF wrote the output.
Outcomes == {"ok", "skipped", "throws", "throwsAfterWrite"}

\* The file system after compressPDF ran with output path out.
DiskAfter(d, out, outcome) ==
    IF outcome \in {"ok", "throwsAfterWrite"} THEN [d EXCEPT ![out] = 2] ELSE d

\* processSingleFile: the catch block.
RethrowSingle(result, error, d) == [thrown |-> TRUE, result |-> result, disk |-> d]

CatchSingle(result, error, d) ==
    [thrown |-> FALSE, result |-> [result EXCEPT !.error = error], disk |-> d]

\* Line 140: !overwrite && fs.existsSync(outputFile).
NeverExists(overwrite, d, outputFile) == FALSE

OutputExists(overwrite, d, outputFile) == ~overwrite /\ d[outputFile] # 0

\* processSingleFile(inputFile i, ...) on the file system d.
processSingleFile(i, d) ==
    LET result == [inputFile |-> batchIn.files[i], outputFile |-> "null", success |-> FALSE,
                   error |-> "none", originalSize |-> 0, compressedSize |-> 0]
        inputFile == batchIn.files[i]
        outputFile == OutputFile(inputFile, batchIn.outputDir)
        outcome == batchIn.outcomes[i]
        named == [result EXCEPT !.outputFile = outputFile,
                                 !.originalSize = d[inputFile]]
        after == DiskAfter(d, outputFile, outcome)
    IN  IF OutputExists(batchIn.overwrite, d, outputFile)
        THEN CatchSingle(result, "exists", d) @@ [call |-> "none"]
        ELSE IF outcome \in {"throws", "throwsAfterWrite"}
        THEN CatchSingle(named, "compress", after) @@ [call |-> outcome]
        ELSE IF after[outputFile] = 0
        THEN CatchSingle(named, "enoent", after) @@ [call |-> outcome]
        ELSE [thrown |-> FALSE,
              result |-> [named EXCEPT !.compressedSize = after[outputFile],
                                       !.success = TRUE],
              disk |-> after,
              call |-> outcome]

\* findPDFFiles and ensureDirectory: either may throw, and processBatch
\* rethrows; with no file found processBatch returns the empty results.
StartBatch ==
    /\ pc = "batchStart"
    /\ \E ok \in BOOLEAN :
          IF ~ok
          THEN pc' = "batchThrown" /\ results' = results
          ELSE IF Len(batchIn.files) = 0
          THEN pc' = "batchReturned" /\ results' = results
          ELSE pc' = "batchLoop"
               /\ results' = [results EXCEPT !.total = Len(batchIn.files)]
    /\ UNCHANGED <<auxVars, graphVars, passVars, travVars, pipeVars, imgVars, batchIn, disk, calls>>

\* One turn of the loop over the files.
ProcessSingleFile ==
    /\ pc = "batchLoop"
    /\ Len(results.files) < Len(batchIn.files)
    /\ LET r == processSingleFile(Len(results.files) + 1, disk)
           fileResult == r.result
       IN  /\ disk' = r.disk
           /\ calls' = Append(calls, r.call)
           /\ IF r.thrown
              THEN pc' = "batchThrown" /\ results' = results
              ELSE /\ pc' = pc
                   /\ results' =
                         IF fileResult.success
                         THEN [results EXCEPT
                                 !.files = Append(@, fileResult),
                                 !.successful = @ + 1,
                                 !.totalOriginalSize = @ + fileResult.originalSize,
                                 !.totalCompressedSize = @ + fileResult.compressedSize]
                         ELSE [results EXCEPT
                                 !.files = Append(@, fileResult),
                                 !.failed = @ + 1]
    /\ UNCHANGED <<auxVars, graphVars, passVars, travVars, pipeVars, imgVars, batchIn>>

\* printBatchSummary(results); return results.
ReturnBatch ==
    /\ pc = "batchLoop"
    /\ Len(results.files) = Len(batchIn.files)
    /\ pc' = "batchReturned"
    /\ UNCHANGED <<auxVars, graphVars, passVars, travVars, pipeVars, imgVars, batchVars>>

InitBatchRun ==
    /\ StreamDocument({<<1, 2>>})
    /\ InitPass
    /\ InitTrav
    /\ level = "extreme"
    /\ failedAt = "none"
    /\ outFile = "absent"
    /\ exit = "running"
    /\ InitImg
    /\ InitAux
    /\ \E n \in 0..MaxFiles :
          /\ batchIn \in [files : [1..n -> Paths], outcomes : [1..n -> Outcomes],
                          outputDir : {"none", "out", "docs"},
                          recursive : BOOLEAN, overwrite : BOOLEAN]
          /\ \A i \in 1..n : batchIn.files[i] \in Found(batchIn.recursive)
          /\ \A i, j \in 1..n : i # j => batchIn.files[i] # batchIn.files[j]
          /\ \E existing \in SUBSET {OutputOf(i) : i \in 1..n} :
                disk = [q \in Paths |->
                           IF \E i \in 1..n : batchIn.files[i] = q THEN 3
                           ELSE IF q \in existing THEN 1 ELSE 0]
    /\ results = ZeroResults
    /\ calls = <<>>
    /\ pc = "batchStart"

NextBatch == StartBatch \/ ProcessSingleFile \/ ReturnBatch

SpecBatch == InitBatchRun /\ [][NextBatch]_vars

\* Every part of the state but pc and the level, with nothing under way.
InitIdle ==
    /\ StreamDocument({<<1, 2>>})
    /\ InitPass
    /\ InitTrav
    /\ failedAt = "none"
    /\ outFile = "absent"
    /\ exit = "running"
    /\ InitImg
    /\ InitBatch

(***************************************************************************)
(* stripMetadata.  The Info dictionary holds the six text fields ("absent",*)
(* "set", or "empty" once cleared) and the two dates ("absent", "set", or  *)
(* "epoch" once reset to new Date(0)); the catalog and every page may      *)
(* hold a Metadata entry, every page a Thumb entry.  context.lookup of the *)
(* root may give nothing (catalog), and pdfDoc.getPages() may throw        *)
(* (pagesOk).  The setters of the library are taken not to throw.          *)
(***************************************************************************)
MaxPages == 2

TextFields == {"Title", "Author", "Subject", "Keywords", "Producer", "Creator"}
DateFields == {"CreationDate", "ModDate"}

PageEntries == [Metadata : BOOLEAN, Thumb : BOOLEAN]

Documents ==
    UNION {[info : [TextFields -> {"absent", "set"}],
            dates : {[f \in DateFields |-> v] : v \in {"absent", "set"}},
            catalog : BOOLEAN, catalogMetadata : BOOLEAN, pagesOk : BOOLEAN,
            pages : [1..n -> PageEntries]] : n \in 0..MaxPages}

\* pdfDoc.setTitle('') and the like, on the fields of the set F.
ClearFields(info, F) == [f \in TextFields |-> IF f \in F THEN "empty" ELSE info[f]]

\* removeStandardMetadata(pdfDoc, level, stats).
ClearAllStandard(m, lvl, stats) ==
    [meta |-> [m EXCEPT !.info = ClearFields(@, TextFields)],
     stats |-> [stats EXCEPT !.fieldsCleared = @ + 6, !.metadataRemoved = @ + 1]]

removeStandardMetadata(m, lvl, stats) ==
    LET cleared ==
            IF lvl = "true" THEN TextFields
            ELSE IF lvl = "partial"
            THEN {"Subject", "Keywords", "Producer", "Creator"}
            ELSE {}
    IN  [meta |-> [m EXCEPT !.info = ClearFields(@, cleared),
                            !.dates = IF lvl = "true"
                                      THEN [f \in DateFields |-> "epoch"] ELSE @],
         stats |-> [stats EXCEPT
                      !.fieldsCleared = @ + Cardinality(cleared)
                                          + (IF lvl = "true" THEN 2 ELSE 0),
                      !.metadataRemoved = @ + 1]]

\* The number of pages that hold the entry key.
Holding(pages, key) == Cardinality({k \in 1..Len(pages) : pages[k][key]})

\* pageDict.delete(PDFName.of(key)) on every page.
DeleteOnPages(pages, key) == [k \in 1..Len(pages) |-> [pages[k] EXCEPT ![key] = FALSE]]

\* removeXMPMetadata(pdfDoc, stats): an error is caught and logged.
removeXMPMetadata(m, stats) ==
    IF ~m.catalog THEN [meta |-> m, stats |-> stats]
    ELSE LET n1 == IF m.catalogMetadata THEN 1 ELSE 0
             m1 == [m EXCEPT !.catalogMetadata = FALSE]
         IN  IF ~m.pagesOk
             THEN [meta |-> m1,
                   stats |-> [stats EXCEPT !.metadataRemoved = @ + n1]]
             ELSE [meta |-> [m1 EXCEPT !.pages = DeleteOnPages(@, "Metadata")],
                   stats |-> [stats EXCEPT !.metadataRemoved =
                                 @ + n1 + Holding(m.pages, "Metadata")]]

\* removeThumbnails(pdfDoc, stats): an error is caught and logged.
removeThumbnails(m, stats) ==
    IF ~m.pagesOk THEN [meta |-> m, stats |-> stats]
    ELSE [meta |-> [m EXCEPT !.pages = DeleteOnPages(@, "Thumb")],
          stats |-> [stats EXCEPT !.metadataRemoved = @ + Holding(m.pages, "Thumb")]]

\* stripMetadata(pdfDoc, settings).
stripMetadata(m, settings) ==
    LET removeLevel == settings.removeMetadata
        zero == [meta |-> m, stats |-> ZeroMStats]
        std == IF removeLevel \in {"true", "partial"}
               THEN removeStandardMetadata(m, removeLevel, ZeroMStats) ELSE zero
        xmp == IF removeLevel = "true" THEN removeXMPMetadata(std.meta, std.stats) ELSE std
        thumbs == IF removeLevel = "true" THEN removeThumbnails(xmp.meta, xmp.stats) ELSE xmp
    IN  IF removeLevel = "false" THEN zero ELSE thumbs

StripMetadataRun ==
    /\ pc = "metaStart"
    /\ LET r == stripMetadata(meta, Settings(level))
       IN  meta' = r.meta /\ mstats' = r.stats
    /\ pc' = "metaDone"
    /\ UNCHANGED <<coreVars, valVars, cliVars, streamVars, retryVars>>

InitMetadata ==
    /\ InitIdle
    /\ level \in Levels
    /\ meta \in Documents
    /\ meta.pagesOk => meta.catalog
    /\ mstats = ZeroMStats
    /\ InitVal
    /\ InitCli
    /\ InitStreams
    /\ InitRetry
    /\ pc = "metaStart"

NextMetadata == StripMetadataRun

SpecMetadata == InitMetadata /\ [][NextMetadata]_vars

(***************************************************************************)
(* validatePDF.  The file at filePath: whether it exists, can be read,     *)
(* loads as a PDF; what getPageCount gives (-1: it throws); whether        *)
(* getPages and getSize, getTitle and getAuthor, and save go through;      *)
(* whether the document is encrypted and how many objects it has.  A       *)
(* result carries `raised`: the error that is on its way out of the block  *)
(* being run ("none": no error), and in the end out of validatePDF.        *)
(***************************************************************************)
VFiles ==
    [exists : BOOLEAN, readable : BOOLEAN, loads : BOOLEAN,
     pageCount : {-1, 0, 1}, pagesOk : BOOLEAN, metaOk : BOOLEAN,
     saveOk : BOOLEAN, encrypted : BOOLEAN, objectCount : {3, 50001}]

NewResults ==
    [isValid |-> TRUE, errors |-> <<>>, warnings |-> <<>>,
     checks |-> [fileExists |-> FALSE, isReadable |-> FALSE, isPDF |-> FALSE,
                 hasPages |-> FALSE, pagesAccessible |-> FALSE,
                 metadataAccessible |-> FALSE, hasValidStructure |-> FALSE],
     details |-> FALSE, detailKeys |-> {}, raised |-> "none"]

\* results.isValid = false; results.errors.push(msg).
Fail(res, msg) == [res EXCEPT !.isValid = FALSE, !.errors = Append(@, msg)]

\* results.warnings.push(msg).
Warn(res, msg) == [res EXCEPT !.warnings = Append(@, msg)]

\* A statement that throws: what follows it in its try block is not run.
Raise(res, e) == [res EXCEPT !.raised = e]

\* results.details.key = ...: a TypeError when details is null.
SetDetail(res, key) ==
    IF res.details THEN [res EXCEPT !.detailKeys = @ \cup {key}]
    ELSE Raise(res, "TypeError")

\* catch (error) { results.warnings.push(...) }
CatchWarn(res, msg) ==
    IF res.raised = "none" THEN res ELSE Warn([res EXCEPT !.raised = "none"], msg)

\* catch (error) { results.isValid = false; results.errors.push(...) }
CatchFail(res, msg) ==
    IF res.raised = "none" THEN res ELSE Fail([res EXCEPT !.raised = "none"], msg)

\* Check 4: has pages.
CheckPagesLenient(f, res) ==
    IF f.pageCount > 0
    THEN [res EXCEPT !.checks.hasPages = TRUE, !.details = TRUE,
                     !.detailKeys = {"pageCount"}]
    ELSE [res EXCEPT !.errors = Append(@, "PDF has no pages")]

CheckPages(f, res) ==
    CatchFail(IF f.pageCount = -1 THEN Raise(res, "Error")
              ELSE IF f.pageCount > 0
              THEN [res EXCEPT !.checks.hasPages = TRUE, !.details = TRUE,
                               !.detailKeys = {"pageCount"}]
              ELSE Fail(res, "PDF has no pages"),
              "Cannot determine page count")

\* Check 5: pages are accessible.
CheckAccessible(f, res) ==
    CatchWarn(IF ~f.pagesOk THEN Raise(res, "Error")
              ELSE IF f.pageCount = 0 THEN res
              ELSE SetDetail([res EXCEPT !.checks.pagesAccessible = TRUE],
                             "firstPageSize"),
              "Pages may not be fully accessible")

\* Check 6: metadata is accessible.
CheckMetadata(f, res) ==
    CatchWarn(IF ~f.metaOk THEN Raise(res, "Error")
              ELSE SetDetail([res EXCEPT !.checks.metadataAccessible = TRUE],
                             "hasMetadata"),
              "Metadata may not be accessible")

\* Check 7: valid structure.
CheckStructure(f, res) ==
    CatchFail(IF f.saveOk THEN [res EXCEPT !.checks.hasValidStructure = TRUE]
              ELSE Raise(res, "Error"),
              "PDF structure is invalid")

\* performAdditionalChecks(pdfDoc, results).
performAdditionalChecks(f, res) ==
    LET enc == IF f.encrypted THEN Warn(res, "PDF appears to be encrypted") ELSE res
    IN  CatchWarn(IF ~enc.details THEN enc
                  ELSE LET counted == SetDetail(enc, "objectCount")
                       IN  IF f.objectCount > 50000
                           THEN Warn(counted, "High object count") ELSE counted,
                  "Additional checks incomplete")

\* validatePDF(filePath).
validatePDF(f) ==
    LET found == [NewResults EXCEPT !.checks.fileExists = TRUE]
        read == [found EXCEPT !.checks.isReadable = TRUE]
        loaded == [read EXCEPT !.checks.isPDF = TRUE]
    IN  CatchFail(
          IF ~f.exists THEN Fail(NewResults, "File does not exist")
          ELSE IF ~f.readable
          THEN CatchFail(Raise(found, "Error"), "File is not readable")
          ELSE IF ~f.loads
          THEN CatchFail(Raise(read, "Error"), "Invalid PDF structure")
          ELSE performAdditionalChecks(f,
                  CheckStructure(f,
                     CheckMetadata(f,
                        CheckAccessible(f,
                           CheckPages(f, loaded))))),
          "Validation failed")

ValidatePDF ==
    /\ pc = "validateStart"
    /\ vresult' = validatePDF(vfile)
    /\ pc' = "validateDone"
    /\ UNCHANGED <<coreVars, metaVars, cliVars, streamVars, retryVars, vfile>>

\* getPageCount is getPages().length: one throws when the other does, and
\* a document with a page count has its pages.
InitValidate ==
    /\ InitIdle
    /\ level = "extreme"
    /\ InitMeta
    /\ vfile \in VFiles
    /\ vfile.pageCount = -1 => ~vfile.pagesOk
    /\ vresult = <<>>
    /\ InitCli
    /\ InitStreams
    /\ InitRetry
    /\ pc = "validateStart"

NextValidate == ValidatePDF

SpecValidate == InitValidate /\ [][NextValidate]_vars

(***************************************************************************)
(* main, without --batch: the interactive mode and the single-file mode,   *)
(* up to compressPDF; from processPDF on the run is the pipeline above.    *)
(* args.file and args.level are what -f and -l gave ("none": not given),   *)
(* args.force whether --force was typed, args.unknown what the option      *)
(* parser does with an option the program did not declare, args.answers    *)
(* the answers to the prompts, args.input the input file, args.scan what   *)
(* preScanPDF does on it.                                                  *)
(***************************************************************************)
LevelArgs == {"none", "extreme", "MEDIUM", "less", "bogus"}

\* String.prototype.toLowerCase on the levels that occur.
ToLowerCase(str) == IF str = "MEDIUM" THEN "medium" ELSE str

\* isValidCompressionLevel(level).
isValidCompressionLevel(l) == ToLowerCase(l) \in {"extreme", "medium", "less"}

\* The input file: ioError stands for statSync, openSync or readSync
\* throwing; magic for the first five bytes being %PDF-.
InputFiles ==
    [exists : BOOLEAN, ioError : BOOLEAN, isFile : BOOLEAN, pdfExt : BOOLEAN,
     readable : BOOLEAN, size : {0, 3}, magic : BOOLEAN]

\* validateFile(filePath): "valid", or the error of the check that failed.
AcceptAnyContent(f) ==
    IF ~f.exists THEN "File does not exist"
    ELSE IF f.ioError THEN "Validation error"
    ELSE IF ~f.isFile THEN "Path is not a file"
    ELSE IF ~f.pdfExt THEN "File must have .pdf extension"
    ELSE IF ~f.readable THEN "File is not readable (permission denied)"
    ELSE "valid"

validateFile(f) ==
    IF ~f.exists THEN "File does not exist"
    ELSE IF f.ioError THEN "Validation error"
    ELSE IF ~f.isFile THEN "Path is not a file"
    ELSE IF ~f.pdfExt THEN "File must have .pdf extension"
    ELSE IF ~f.readable THEN "File is not readable (permission denied)"
    ELSE IF f.size = 0 THEN "File is empty"
    ELSE IF ~f.magic THEN "File is not a valid PDF (invalid magic number)"
    ELSE "valid"

\* main: program.parse and the choice of the mode.  --force is not among
\* the declared options: the parser ends the process on it, or ignores it.
Main ==
    /\ pc = "main"
    /\ IF args.force /\ args.unknown = "rejected"
       THEN pc' = "exited" /\ exit' = "1"
       ELSE /\ exit' = exit
            /\ pc' = IF args.file = "none" \/ args.level = "none"
                     THEN "interactive" ELSE "single"
    /\ UNCHANGED <<graphVars, passVars, travVars, imgVars, batchVars, metaVars,
                   valVars, streamVars, retryVars, cliVars, level, failedAt, outFile>>

\* runInteractiveMode up to the call of compressPDF.
RunInteractiveMode ==
    /\ pc = "interactive"
    /\ IF ~args.answers.confirm
       THEN pc' = "catchMain" /\ run' = run /\ level' = level
       ELSE LET validation == validateFile(args.input)
            IN  /\ run' = [run EXCEPT !.validation = validation]
                /\ level' = args.answers.compressionLevel
                /\ pc' = IF validation = "valid" THEN "compress" ELSE "catchMain"
    /\ UNCHANGED <<graphVars, passVars, travVars, imgVars, batchVars, metaVars,
                   valVars, streamVars, retryVars, args, failedAt, outFile, exit>>

\* runSingleFileMode up to the call of compressPDF.
RunSingleFileMode ==
    /\ pc = "single"
    /\ level' = ToLowerCase(args.level)
    /\ IF ~isValidCompressionLevel(ToLowerCase(args.level))
       THEN pc' = "catchMain" /\ run' = run
       ELSE LET validation == validateFile(args.input)
            IN  /\ run' = [run EXCEPT !.validation = validation]
                /\ pc' = IF validation = "valid" THEN "compress" ELSE "catchMain"
    /\ UNCHANGED <<graphVars, passVars, travVars, imgVars, batchVars, metaVars,
                   valVars, streamVars, retryVars, args, failedAt, outFile, exit>>

\* compressPDF(config) up to the call of processPDF.  Neither mode puts
\* force or skipPreScan into config: both default to false.
CompressPDF ==
    /\ pc = "compress"
    /\ LET force == FALSE
           skipPreScan == FALSE
           scans == ~skipPreScan /\ ~force
       IN  IF level \notin Levels
           THEN pc' = "catchMain" /\ run' = [run EXCEPT !.called = TRUE]
           ELSE IF scans /\ args.scan = "throws"
           THEN /\ pc' = "catchCompress"
                /\ run' = [run EXCEPT !.called = TRUE, !.scanned = TRUE]
           ELSE IF scans /\ args.scan = "optimized"
           THEN /\ pc' = "returned"
                /\ run' = [run EXCEPT !.called = TRUE, !.scanned = TRUE,
                                      !.skipped = TRUE]
           ELSE /\ pc' = "start"
                /\ run' = [run EXCEPT !.called = TRUE, !.scanned = scans,
                                      !.processed = TRUE]
    /\ UNCHANGED <<graphVars, passVars, travVars, imgVars, batchVars, metaVars,
                   valVars, streamVars, retryVars, args, pipeVars>>

InitMain ==
    /\ StreamDocument({<<1, 2>>})
    /\ InitPass
    /\ InitTrav
    /\ InitImg
    /\ InitBatch
    /\ InitMeta
    /\ InitVal
    /\ InitStreams
    /\ InitRetry
    /\ level = "none"
    /\ failedAt = "none"
    /\ outFile \in {"absent", "old"}
    /\ exit = "running"
    /\ args \in [file : {"none", "in.pdf"}, level : LevelArgs, force : BOOLEAN,
                  unknown : {"rejected", "ignored"},
                  answers : [compressionLevel : Levels, confirm : BOOLEAN],
                  input : InputFiles,
                  scan : {"optimized", "compressible", "throws"}]
    /\ ~args.force => args.unknown = "rejected"
    /\ ~args.input.exists =>
          args.input = [exists |-> FALSE, ioError |-> FALSE, isFile |-> FALSE,
                        pdfExt |-> FALSE, readable |-> FALSE, size |-> 0,
                        magic |-> FALSE]
    /\ run = NoRun
    /\ pc = "main"

NextMain ==
    \/ Main \/ RunInteractiveMode \/ RunSingleFileMode \/ CompressPDF
    \/ NextPipeline

SpecMain == InitMain /\ [][NextMain]_vars /\ WF_vars(NextMain)

(***************************************************************************)
(* optimizeStreams.  A stream object holds a payload of so many bytes in   *)
(* some encoding ("raw", "flate", "dct", "lzw"); its dictionary has a      *)
(* Length and a Filter ("none": no entry).  `contents` is how the object   *)
(* exposes the payload: as a function, as the bytes themselves, or not at  *)
(* all.  inflates: pako.inflate accepts the payload; cand: the length of   *)
(* what pako.deflate returns (-1: it throws).                              *)
(***************************************************************************)
MaxStreams == 2

\* The Filter entry that names an encoding.
FilterOf(encoding) ==
    CASE encoding = "raw" -> "none"
      [] encoding = "flate" -> "/FlateDecode"
      [] encoding = "dct" -> "/DCTDecode"
      [] encoding = "lzw" -> "/LZWDecode"

\* A stream as PDFDocument.load leaves it: the dictionary describes the
\* payload.
LoadedStream(contents, encoding, len, inflates, cand) ==
    [contents |-> contents, encoding |-> encoding, payload |-> len,
     Length |-> len, Filter |-> FilterOf(encoding),
     inflates |-> inflates, cand |-> cand]

CandLengths == {-1, 100, 200, 300}

StreamObjects ==
    {LoadedStream(c, "raw", n, FALSE, k) :
        c \in {"function", "bytes", "none"}, n \in {0, 200}, k \in CandLengths}
    \cup {LoadedStream(c, "flate", n, TRUE, k) :
        c \in {"function", "bytes", "none"}, n \in {0, 200}, k \in CandLengths}
    \cup {LoadedStream(c, e, n, FALSE, -1) :
        c \in {"function", "bytes", "none"}, e \in {"flate", "dct", "lzw"},
        n \in {0, 200}}

\* getCompressionLevel(objectCompression).
getCompressionLevel(objectCompression) ==
    CASE objectCompression = "maximum" -> 9
      [] objectCompression = "moderate" -> 6
      [] objectCompression = "minimal" -> 1
      [] OTHER -> 6

\* optimizeStream(streamObject, compressionLevel, stats, context): the
\* stream and the stats after the call.
optimizeStream(st, compressionLevel, stats) ==
    LET originalSize == st.payload
        counted == [stats EXCEPT !.originalStreamSize = @ + originalSize,
                                 !.streamsProcessed = @ + 1]
        kept == [stats |-> [counted EXCEPT !.compressedStreamSize = @ + originalSize],
                 stream |-> st]
    IN  IF st.contents # "function" THEN [stats |-> stats, stream |-> st]
        ELSE IF originalSize = 0 THEN [stats |-> stats, stream |-> st]
        ELSE IF st.Filter # "none" /\ ~(st.Filter = "/FlateDecode" /\ st.inflates)
        THEN kept
        ELSE IF st.cand = -1 THEN [stats |-> counted, stream |-> st]
        ELSE IF st.cand < originalSize
        THEN [stats |-> [counted EXCEPT !.compressedStreamSize = @ + st.cand],
              stream |-> [st EXCEPT !.Filter = "/FlateDecode", !.Length = st.cand]]
        ELSE kept

\* One turn of the loop of optimizeStreams.
OptimizeStream ==
    /\ pc = "streamsLoop"
    /\ spos <= Len(streams)
    /\ LET r == optimizeStream(streams[spos],
                               getCompressionLevel(Settings(level).objectCompression),
                               sstats)
       IN  /\ streams' = [streams EXCEPT ![spos] = r.stream]
           /\ sstats' = r.stats
    /\ spos' = spos + 1
    /\ UNCHANGED <<coreVars, metaVars, valVars, cliVars, retryVars, pc>>

\* optimizeStreams returns its stats.
ReturnStreams ==
    /\ pc = "streamsLoop"
    /\ spos > Len(streams)
    /\ pc' = "streamsDone"
    /\ UNCHANGED <<coreVars, metaVars, valVars, cliVars, streamVars, retryVars>>

InitOptimize ==
    /\ InitIdle
    /\ level \in Levels
    /\ InitMeta
    /\ InitVal
    /\ InitCli
    /\ InitRetry
    /\ streams \in UNION {[1..n -> StreamObjects] : n \in 1..MaxStreams}
    /\ sstats = ZeroSStats
    /\ spos = 1
    /\ pc = "streamsLoop"

NextOptimize == OptimizeStream \/ ReturnStreams

SpecOptimize == InitOptimize /\ [][NextOptimize]_vars

(***************************************************************************)
(* retryWithBackoff(fn, maxRetries, initialDelay).  retry.attempts is what *)
(* each call of fn did, in order (it returned a value or threw an error),  *)
(* retry.waits the delays sleep was called with, in order.                 *)
(***************************************************************************)
MaxRetries == 3

InitialDelays == {1, 3, 1000}

\* What fn may return and what it may throw.
Values == {"v1", "v2"}
Errors == {"e1", "e2"}

\* Math.pow(2, i).
RECURSIVE Pow2(_)
Pow2(i) == IF i = 0 THEN 1 ELSE 2 * Pow2(i - 1)

\* Line 128: if (i < maxRetries - 1), the guard of the sleep.
SleepsAlways(i, maxRetries) == TRUE

SleepsAfter(i, maxRetries) == i < maxRetries - 1

\* One turn of the loop: return await fn(), or the catch block up to the
\* call of sleep.
Attempt ==
    /\ pc = "retryLoop"
    /\ retry.i < retry.maxRetries
    /\ \/ \E v \in Values :
             /\ retry' = [retry EXCEPT
                            !.attempts = Append(@, [ok |-> TRUE, value |-> v]),
                            !.returned = v]
             /\ pc' = "retryReturned"
       \/ \E error \in Errors :
             LET caught == [retry EXCEPT
                              !.attempts = Append(@, [ok |-> FALSE, value |-> error]),
                              !.lastError = error]
             IN  IF SleepsAfter(retry.i, retry.maxRetries)
                 THEN /\ retry' = [caught EXCEPT
                                     !.waits = Append(@, retry.initialDelay * Pow2(retry.i))]
                      /\ pc' = "retrySleep"
                 ELSE /\ retry' = [caught EXCEPT !.i = @ + 1]
                      /\ pc' = pc
    /\ UNCHANGED <<coreVars, metaVars, valVars, cliVars, streamVars>>

\* The sleep is over: i++.
Wake ==
    /\ pc = "retrySleep"
    /\ retry' = [retry EXCEPT !.i = @ + 1]
    /\ pc' = "retryLoop"
    /\ UNCHANGED <<coreVars, metaVars, valVars, cliVars, streamVars>>

\* The loop is over: throw lastError.
ThrowLastError ==
    /\ pc = "retryLoop"
    /\ retry.i >= retry.maxRetries
    /\ retry' = [retry EXCEPT !.thrown = retry.lastError]
    /\ pc' = "retryThrown"
    /\ UNCHANGED <<coreVars, metaVars, valVars, cliVars, streamVars>>

InitRetryRun ==
    /\ InitIdle
    /\ level = "extreme"
    /\ InitMeta
    /\ InitVal
    /\ InitCli
    /\ InitStreams
    /\ \E maxRetries \in 0..MaxRetries, initialDelay \in InitialDelays :
          retry = [NoRetry EXCEPT !.maxRetries = maxRetries,
                                  !.initialDelay = initialDelay]
    /\ pc = "retryLoop"

NextRetry == Attempt \/ Wake \/ ThrowLastError

SpecRetry == InitRetryRun /\ [][NextRetry]_vars

(***************************************************************************)
(* Notions the claims are stated in: the references an object holds at any *)
(* depth, reachability by reference paths, structural equality.            *)
(***************************************************************************)
RECURSIVE AllRefs(_)
AllRefs(v) ==
    IF v.t = "ref" THEN {v.n}
    ELSE UNION {AllRefs(v.items[i]) : i \in 1..Len(v.items)}

ObjRefs(o) == UNION {AllRefs(o.items[i]) : i \in 1..Len(o.items)}

Present(tbl) == {i \in Ids : tbl[i] # NoObj}

\* Some surviving object holds a reference to an object that is not there.
Dangling(tbl) == \E i \in Present(tbl) : \E r \in ObjRefs(tbl[i]) : r \notin Present(tbl)

RootSet(tr) == {tr.Root} \cup (IF tr.Info = 0 THEN {} ELSE {tr.Info})

RECURSIVE ReachFrom(_, _)
ReachFrom(tbl, S) ==
    LET N == S \cup (UNION {ObjRefs(tbl[i]) : i \in S} \cap Present(tbl))
    IN  IF N = S THEN S ELSE ReachFrom(tbl, N)

\* The objects with a finite reference path from some root.
Reach(tbl, tr) == ReachFrom(tbl, RootSet(tr) \cap Present(tbl))

\* Structural equality, references compared by the content they point to
\* (unfolded Fuel times, which decides it on a table of MaxWide objects).
Fuel == MaxWide * MaxWide

RECURSIVE ValEq(_, _, _, _)
RECURSIVE ObjEq(_, _, _, _)
ValEq(tbl, a, b, k) ==
    /\ a.t = b.t
    /\ CASE a.t = "prim" -> a.n = b.n
         [] a.t = "ref" -> a.n = b.n \/ k = 0 \/ ObjEq(tbl, a.n, b.n, k - 1)
         [] OTHER -> /\ Len(a.items) = Len(b.items)
                     /\ \A i \in 1..Len(a.items) : ValEq(tbl, a.items[i], b.items[i], k)

ObjEq(tbl, x, y, k) ==
    \/ x = y
    \/ /\ tbl[x].kind = tbl[y].kind
       /\ tbl[x].type = tbl[y].type
       /\ tbl[x].bytes = tbl[y].bytes
       /\ Len(tbl[x].items) = Len(tbl[y].items)
       /\ \A i \in 1..Len(tbl[x].items) : ValEq(tbl, tbl[x].items[i], tbl[y].items[i], k)

StructEq(tbl, x, y) == ObjEq(tbl, x, y, Fuel)

\* Catalog and page-tree nodes: the document's structural skeleton.
IsSkeleton(o) == o.kind = "dict" /\ o.type \in {"Catalog", "Pages"}

\* C1: after deduplicateObjects no reference held by a surviving object, at
\* any depth (dictionary value, array element, nested array, nested
\* dictionary), is dangling.
C1_NoDanglingAfterDedup == pc = "deduped" => ~Dangling(objs)

\* C2: deduplicateObjects maps d to c only if d and c are structurally equal
\* (same kind, same entries, byte-identical payloads).
C2_OnlyEqualMerged ==
    pc = "deduped" => \A d \in DupKeys(dupRefs) : StructEq(pre, d, dupRefs[d])

\* C3: a skeleton object is never a key of the duplicate map and never
\* removed by a deduplicateObjects pass.
C3_SkeletonNeverDeduplicated ==
    pc = "deduped" =>
        \A i \in Ids : IsSkeleton(pre[i]) => dupRefs[i] = 0 /\ objs[i] # NoObj

\* C4: a root-set object A with the same content as a non-root object B is
\* the canonical one of the two, whatever the table order: A stays, B goes.
C4_RootSetSurvives ==
    pc = "deduped" =>
        \A a \in RootSet(trailer) : \A b \in Ids \ RootSet(trailer) :
            pre[a] = pre[b] => objs[a] # NoObj /\ dupRefs[a] = 0 /\ objs[b] = NoObj

\* C5: every object reachable from the roots before a deduplicateObjects
\* pass is afterwards still reachable, or was merged into a canonical
\* object of the same content that is reachable.
C5_ReachablePreserved ==
    pc = "deduped" =>
        \A i \in Reach(pre, trailer) :
            \/ i \in Reach(objs, trailer)
            \/ /\ dupRefs[i] # 0
               /\ dupRefs[i] \in Reach(objs, trailer)
               /\ StructEq(pre, i, dupRefs[i])

\* A post-mutation check of the pass fails: a root does not resolve, no
\* object is reachable, or a reference dangles.
PostCheckFails(tbl) ==
    \/ \E r \in RootSet(trailer) : tbl[r] = NoObj
    \/ Reach(tbl, trailer) = {}
    \/ Dangling(tbl)

\* C6: when the pass leaves the graph failing a post-mutation check, what is
\* saved is the unmodified pre-pass graph.
C6_RollbackOnFailedCheck ==
    pc = "saved" /\ PostCheckFails(objs) => saved.objs = pre

\* The table removeUnusedObjects was called on.
TableBeforeCollect == IF dupRefs = NoDup THEN pre ELSE DedupTable(pre, dupRefs)

\* C10: removeUnusedObjects deletes every object that is neither reachable
\* from the roots nor in the root set, and keeps every reachable one.
C10_UnreachableRemoved ==
    pc = "collected" =>
        \A i \in Present(TableBeforeCollect) :
            IF i \in Reach(TableBeforeCollect, trailer) \cup RootSet(trailer)
            THEN objs[i] # NoObj
            ELSE objs[i] = NoObj

\* C8: when the traversal from the roots has finished, the marked objects
\* are exactly the objects with a reference path from some root.
C8_MarkedExactlyReachable ==
    pc = "marked" => \A i \in Ids : i \in marked <=> i \in Reach(objs, trailer)

\* An object that lies on a reference cycle.
OnCycle(tbl, i) == \E j \in ObjRefs(tbl[i]) \cap Present(tbl) : i \in ReachFrom(tbl, {j})

\* C9: the traversal terminates, walks each object's body at most once, and
\* ends with every object of a cycle that is reachable from a root marked.
C9_CycleSafeTraversal ==
    /\ [](\A i \in Ids : expanded[i] <= 1)
    /\ [](pc = "marked" =>
            \A i \in Reach(objs, trailer) : OnCycle(objs, i) => i \in marked)
    /\ <>(pc = "marked")

\* Parts of C9 taken alone.
TraverseTerminates == <>(pc = "marked")
ExpandedAtMostOnce == \A i \in Ids : expanded[i] <= 1
MarkedAreReachable == \A i \in marked : i \in Reach(objs, trailer)

\* C7: a run whose document was loaded ends with an output file written in
\* this run, also when a stage of applyCompression failed, and no stage
\* failure ends the process with an error.
C7_AlwaysSerialized ==
    pc = "exited" /\ failedAt \in Stages \cup {"none"} =>
        outFile = "written" /\ exit = "0"

\* C11: removeUnusedObjects removes no object that is reachable from the
\* roots: the reachable set after the call is the reachable set before it.
C11_CollectKeepsReachable ==
    pc = "collected" =>
        Reach(objs, trailer) = Reach(TableBeforeCollect, trailer)

\* C11's case: removeUnusedObjects has run on a table with two or more
\* reachable objects and an unreachable one.
C11_Witness ==
    /\ pc = "collected"
    /\ Cardinality(Reach(TableBeforeCollect, trailer)) >= 2
    /\ Present(TableBeforeCollect) \ Reach(TableBeforeCollect, trailer) # {}

\* C12: when a root of the trailer does not resolve, the traversal does not
\* run to its normal end and does not mark that root as referenced.
C12_UnresolvedRootIsFatal ==
    \A r \in RootSet(trailer) :
        objs[r] = NoObj => pc # "marked" /\ r \notin marked

\* Two objects of the table whose compared strings differ and hash alike.
HashCollision(tbl) ==
    \E x, y \in Present(tbl) :
        /\ ObjectContent(tbl[x]) # ObjectContent(tbl[y])
        /\ simpleHash(ObjectContent(tbl[x])) = simpleHash(ObjectContent(tbl[y]))

\* C13: the duplicate map of deduplicateObjects has no chains (no canonical
\* target is itself a key, also when contents collide on simpleHash), and
\* rewriting the references with the same map a second time changes nothing.
C13_MapIdempotent ==
    pc = "deduped" =>
        /\ \A d \in DupKeys(dupRefs) : dupRefs[dupRefs[d]] = 0
        /\ \A i \in Ids :
              UpdateObject(UpdateObject(pre[i], dupRefs), dupRefs)
                  = UpdateObject(pre[i], dupRefs)

\* C13's case: on a table with a simpleHash collision a pass found a
\* duplicate and its rewrite changed a reference of a surviving object.
C13_Witness ==
    /\ pc = "deduped"
    /\ HashCollision(pre)
    /\ DupKeys(dupRefs) # {}
    /\ \E i \in Present(objs) : objs[i] # pre[i]

\* C14: after one deduplicateObjects pass no two distinct surviving
\* non-skeleton objects are structurally identical, and a second pass on the
\* result finds no duplicate (so it changes nothing).
C14_DedupIdempotent ==
    pc = "deduped" =>
        /\ \A x, y \in Present(objs) :
              x # y /\ ~IsSkeleton(objs[x]) /\ ~IsSkeleton(objs[y])
                  => ~StructEq(objs, x, y)
        /\ FirstPass(objs, order).duplicatesFound = 0
        /\ FirstPass(objs, order).dup = NoDup

\* The second half of C14 taken alone.
SecondPassFindsNothing ==
    pc = "deduped" => FirstPass(objs, order).dup = NoDup

\* C15: on a table of which no two objects have equal content,
\* deduplicateObjects reports no duplicate, builds an empty duplicate map
\* and leaves the table and every object's entries as they were.
C15_NoDuplicatesNoOp ==
    pc = "deduped" /\ (\A x, y \in Present(pre) : x # y => ~StructEq(pre, x, y))
        => /\ dstats.duplicatesFound = 0
           /\ dupRefs = NoDup
           /\ objs = pre
           /\ KeysOf(order) = Present(pre)

\* The values a and b are the same but for references to two different
\* objects of equal content, neither of them x or y.
RECURSIVE SameButRefs(_, _, _, _, _)
SameButRefs(tbl, a, b, x, y) ==
    /\ a.t = b.t
    /\ CASE a.t = "prim" -> a.n = b.n
         [] a.t = "ref" ->
               \/ a.n = b.n
               \/ /\ {a.n, b.n} \cap {x, y} = {}
                  /\ {a.n, b.n} \subseteq Present(tbl)
                  /\ StructEq(tbl, a.n, b.n)
         [] OTHER -> /\ Len(a.items) = Len(b.items)
                     /\ \A i \in 1..Len(a.items) :
                           SameButRefs(tbl, a.items[i], b.items[i], x, y)

\* The objects x and y are identical except that they reference different,
\* content-equal sub-objects.
TwinsByContent(tbl, x, y) ==
    /\ x # y
    /\ tbl[x].kind = tbl[y].kind /\ tbl[x].type = tbl[y].type
    /\ tbl[x].bytes = tbl[y].bytes
    /\ Len(tbl[x].items) = Len(tbl[y].items)
    /\ tbl[x].items # tbl[y].items
    /\ \A i \in 1..Len(tbl[x].items) :
          SameButRefs(tbl, tbl[x].items[i], tbl[y].items[i], x, y)

\* The canonical object of i under a duplicate map.
Canonical(dup, i) == IF dup[i] # 0 THEN dup[i] ELSE i

\* C16: two objects that are identical except that they reference two
\* different but content-equal sub-objects end one deduplicateObjects pass
\* in the same duplicate class.
C16_RefsComparedByContent ==
    pc = "deduped" =>
        \A x, y \in Present(pre) :
            TwinsByContent(pre, x, y) => Canonical(dupRefs, x) = Canonical(dupRefs, y)

\* The duplicate class of the canonical object c: c and what is mapped to it.
ClassOf(dup, c) == {i \in Ids : Canonical(dup, i) = c}

\* C17: in a duplicate class without a root-set object the survivor is the
\* member with the smallest object number, whatever the table order.
C17_SmallestIdSurvives ==
    pc = "deduped" =>
        \A d \in DupKeys(dupRefs) :
            ClassOf(dupRefs, dupRefs[d]) \cap RootSet(trailer) = {}
                => \A i \in ClassOf(dupRefs, dupRefs[d]) : dupRefs[d] <= i

\* Exactly two objects of the table are this stream: x and y.
TwoIdenticalStreams(tbl, x, y) ==
    /\ x # y
    /\ tbl[x].kind = "stream"
    /\ tbl[x] = tbl[y]
    /\ \A z \in Present(tbl) \ {x, y} : tbl[z] # tbl[x]

\* The objects deduplicateObjects deleted are the keys of its duplicate
\* map, and the table shrank by stats.duplicatesFound.
RemovesExactlyDuplicates ==
    pc = "deduped" =>
        /\ \A i \in Present(pre) : objs[i] = NoObj <=> dupRefs[i] # 0
        /\ \A d \in DupKeys(dupRefs) : objs[dupRefs[d]] # NoObj
        /\ Cardinality(Present(pre)) - Cardinality(Present(objs))
               = dstats.duplicatesFound
        /\ KeysOf(order) = Present(objs)

\* C18: deduplicateObjects deletes exactly the objects it classified as
\* duplicates (no canonical object, no object outside a class), the table
\* shrinks by stats.duplicatesFound, and of two identical streams exactly
\* one is removed.
C18_RemovesExactlyDuplicates ==
    pc = "deduped" =>
        /\ \A i \in Present(pre) : objs[i] = NoObj <=> dupRefs[i] # 0
        /\ \A d \in DupKeys(dupRefs) : objs[dupRefs[d]] # NoObj
        /\ Cardinality(Present(pre)) - Cardinality(Present(objs))
               = dstats.duplicatesFound
        /\ \A x, y \in Present(pre) :
              TwoIdenticalStreams(pre, x, y)
                  => Cardinality({x, y} \cap Present(objs)) = 1

\* The replacement gate with a margin of 5%:
\* candidate_size <= original_size * (1 - margin).
Accept(original, candidate) == 100 * candidate <= 95 * original

\* What the entries from k on add to compressedImagesSize when a candidate
\* that the gate rejects counts with the original size.
RECURSIVE GatedCompressedSize(_, _, _)
GatedCompressedSize(es, k, settings) ==
    IF k > Len(es) THEN 0
    ELSE (IF es[k].subtype # "Image" THEN 0
          ELSE IF HasCandidate(es[k], settings)
                  /\ ~Accept(es[k].originalSize, es[k].cand)
               THEN es[k].originalSize
               ELSE CompressedAdded(es[k], settings))
         + GatedCompressedSize(es, k + 1, settings)

\* C19: a recompressed image replaces the original in the XObject
\* dictionary only if candidate <= original * 95%; a rejected candidate
\* leaves the entry's reference as it was and counts with the original
\* size in compressedImagesSize.
C19_ReplacementGate ==
    pc = "imagesDone" =>
        /\ \A k \in 1..Len(images) :
              xObjects[k] = "embedded"
                  => Accept(images[k].originalSize, images[k].cand)
        /\ istats.compressedImagesSize
               = GatedCompressedSize(images, 1, Settings(level))

\* Every entry of results.files is the result of the file at its position:
\* a failure of compressPDF is recorded in the entry of the file it
\* happened on and in no other, and the counters count the entries.
BatchEntriesRight ==
    /\ \A i \in 1..Len(results.files) :
          LET e == results.files[i]
              failedOnIt == batchIn.outcomes[i] \in {"throws", "throwsAfterWrite"}
          IN  /\ e.inputFile = batchIn.files[i]
              /\ e.success <=> e.error = "none"
              /\ e.error = "compress" => failedOnIt
              /\ failedOnIt => ~e.success
              /\ batchIn.outcomes[i] = "ok" /\ e.error # "exists" => e.success
    /\ results.successful
          = Cardinality({i \in 1..Len(results.files) : results.files[i].success})
    /\ results.failed
          = Cardinality({i \in 1..Len(results.files) : ~results.files[i].success})

Turn == Len(results.files) + 1

\* C21: in a batch without overwrite, when the output path of the file whose
\* turn it is exists, that turn leaves the file system as it is, does not
\* call compressPDF, and reports the file as failed with the 'already
\* exists' error.
C21_ExistingOutputNotWritten ==
    [][(/\ pc = "batchLoop"
        /\ Turn <= Len(batchIn.files)
        /\ ~batchIn.overwrite
        /\ disk[OutputOf(Turn)] # 0)
       => (/\ disk' = disk
           /\ Len(calls') = Turn /\ calls'[Turn] = "none"
           /\ Len(results'.files) = Turn
           /\ ~results'.files[Turn].success
           /\ results'.files[Turn].error = "exists"
           /\ results'.failed = results.failed + 1)]_vars

\* C21's case: without overwrite the second file found its output path
\* taken (by the output the first file wrote, or by a file that was there)
\* and was reported as failed for it.
C21_Witness ==
    /\ ~batchIn.overwrite
    /\ Len(results.files) = MaxFiles
    /\ results.files[MaxFiles].error = "exists"
    /\ calls[MaxFiles] = "none"
    /\ disk[OutputOf(MaxFiles)] # 0

(***************************************************************************)
(* stripMetadata and the level.                                            *)
(***************************************************************************)
\* The entries stripMetadata deals with beyond the six text fields.
Beyond(m) == [dates |-> m.dates, catalogMetadata |-> m.catalogMetadata, pages |-> m.pages]

C23_ValidateConsistent ==
    pc = "validateDone" =>
        /\ vresult.raised = "none"
        /\ vresult.isValid <=> Len(vresult.errors) = 0
        /\ vresult.checks.isPDF => vresult.checks.isReadable
        /\ vresult.checks.isReadable => vresult.checks.fileExists
        /\ vresult.checks.hasPages => vresult.checks.isPDF
        /\ (~vfile.exists \/ ~vfile.loads) =>
              ~vresult.isValid /\ Len(vresult.errors) >= 1

\* C23's case: validatePDF has returned on a file that loads as a PDF and
\* has no pages: the result is invalid with one error, and the assignment
\* to the null details in check 6 has become a warning.
C23_Witness ==
    /\ pc = "validateDone"
    /\ vfile.pageCount = 0 /\ vfile.metaOk
    /\ vresult.checks.isPDF /\ ~vresult.checks.hasPages
    /\ ~vresult.isValid /\ Len(vresult.errors) = 1
    /\ Len(vresult.warnings) >= 1

(***************************************************************************)
(* The command-line front end.                                             *)
(***************************************************************************)
\* C24: a PDF the pre-scan judges already optimized is skipped without
\* processPDF being invoked and without the output file being created or
\* modified; and a run the user gave --force does not run the pre-scan and
\* invokes processPDF (for a valid level and an input validateFile accepts).
C24_SkipAndForce ==
    pc = "exited" =>
        /\ run.skipped => ~run.processed /\ outFile # "written"
        /\ (/\ args.force
            /\ args.file # "none"
            /\ isValidCompressionLevel(args.level)
            /\ validateFile(args.input) = "valid")
           => ~run.scanned /\ run.processed

\* The first half of C24 taken alone.
SkippedLeavesOutput ==
    run.skipped => ~run.processed /\ outFile # "written" /\ saved = NoSave

\* What C25 lists for an accepted input.
Accepted(f) ==
    /\ f.exists /\ f.isFile /\ f.pdfExt /\ f.readable /\ f.size > 0 /\ f.magic

\* C25: in single-file and interactive mode compressPDF is invoked only
\* with a compression level among extreme, medium, less and after
\* validateFile accepted the input, which then exists, is a file, has the
\* .pdf extension, is readable, is not empty and starts with %PDF-; a
\* validateFile that does not accept returns an error, also when a file
\* system call throws, and the run ends with exit code 1.
C25_ValidatesEarly ==
    /\ run.called =>
          /\ level \in Levels
          /\ run.validation = "valid"
          /\ Accepted(args.input)
    /\ run.validation \notin {"none", "valid"} =>
          /\ ~Accepted(args.input) \/ args.input.ioError
          /\ ~run.called
          /\ pc \in {"catchMain", "exited"}
          /\ pc = "exited" => exit = "1"

\* C25's case: single-file mode was given -l MEDIUM and an accepted file,
\* and compressPDF has been invoked with level medium.
C25_Witness ==
    /\ run.called
    /\ args.file # "none" /\ args.level = "MEDIUM"
    /\ level = "medium"
    /\ run.validation = "valid"

Describes(st) == st.Length = st.payload /\ st.Filter = FilterOf(st.encoding)

UnreadStreamUntouched ==
    [][(pc = "streamsLoop" /\ spos <= Len(streams)
          /\ streams[spos].contents # "function")
       => streams' = streams /\ sstats' = sstats]_vars

(***************************************************************************)
(* processSingleFile and what compressPDF did.                             *)
(***************************************************************************)
\* C28: a file is reported as successful, and with a compressedSize, only
\* if its call of compressPDF compressed it and wrote the output file; a
\* file compressPDF skipped as already optimized is not successful, and no
\* size of a file that was there before is reported as compressed size.
C28_SuccessMeansCompressed ==
    \A k \in 1..Len(results.files) :
        /\ results.files[k].success => calls[k] = "ok"
        /\ results.files[k].compressedSize # 0 => calls[k] = "ok"
        /\ calls[k] = "skipped" => ~results.files[k].success

(***************************************************************************)
(* processBatch and the output paths of one run.                           *)
(***************************************************************************)
\* compressPDF wrote the output of the k-th file of the run.
Wrote(k) == calls[k] \in {"ok", "throwsAfterWrite"}

\* C29: within one run of processBatch no two distinct input files are
\* written to the same output path, whatever outputDir, recursive and
\* overwrite are, so that no file's compressed output is overwritten by a
\* later file of the batch.
C29_DistinctOutputs ==
    \A j, k \in 1..Len(calls) :
        (j < k /\ Wrote(j) /\ Wrote(k)) => OutputOf(j) # OutputOf(k)

\* What does hold: without outputDir the output paths of distinct input
\* files are distinct.
SameDirectoryOutputsDistinct ==
    batchIn.outputDir = "none" =>
        \A j, k \in 1..Len(batchIn.files) : j # k => OutputOf(j) # OutputOf(k)

(***************************************************************************)
(* retryWithBackoff.                                                       *)
(***************************************************************************)
\* The attempts of the call that failed.
Failures == {k \in 1..Len(retry.attempts) : ~retry.attempts[k].ok}

\* C30: retryWithBackoff calls fn at most maxRetries times; every attempt
\* before the last one made failed, and a successful attempt ends the call,
\* which returns that attempt's value; the call throws only after
\* maxRetries failed attempts, and then the error of the last attempt; the
\* k-th wait (from 1) follows failed attempt k - 1 (from 0) and lasts
\* initialDelay * 2^(k-1), and there is no wait after the final attempt.
C30_RetryWithBackoff ==
    LET n == Len(retry.attempts)
    IN  /\ n <= retry.maxRetries
        /\ \A k \in 1..(n - 1) : ~retry.attempts[k].ok
        /\ pc = "retryReturned" <=> (n > 0 /\ retry.attempts[n].ok)
        /\ pc = "retryReturned" => retry.returned = retry.attempts[n].value
        /\ pc = "retryThrown" =>
              /\ n = retry.maxRetries
              /\ Failures = 1..n
              /\ n > 0 => retry.thrown = retry.attempts[n].value
        /\ \A k \in 1..Len(retry.waits) :
              /\ k \in Failures
              /\ k < retry.maxRetries
              /\ retry.waits[k] = retry.initialDelay * Pow2(k - 1)
        /\ pc \in {"retryLoop", "retryReturned", "retryThrown"} =>
              Len(retry.waits) =
                 Cardinality(Failures \ {retry.maxRetries})
        /\ pc = "retrySleep" =>
              Len(retry.waits) = n /\ Failures = 1..n

\* C30 witness: a call with maxRetries = MaxRetries and initialDelay 1000
\* whose attempts all failed has thrown the last error after the waits
\* 1000, 2000, ..., and none after the last attempt.
C30_Witness ==
    /\ pc = "retryThrown"
    /\ retry.maxRetries = MaxRetries
    /\ retry.initialDelay = 1000
    /\ Len(retry.attempts) = MaxRetries
    /\ Len(retry.waits) = MaxRetries - 1
    /\ retry.waits[MaxRetries - 1] = 1000 * Pow2(MaxRetries - 2)
    /\ retry.attempts[1].value = "e1"
    /\ retry.thrown = "e2"

====
